---- MODULE Spec2Model ----
(***************************************************************************)
(* The client-side SessionManager of the forensic tool's frontend          *)
(* (config/api.js): a session id kept in localStorage, validated against   *)
(* the session service on every use and created on demand, and the three   *)
(* operations built on it (logInteraction, getHistory, updateContext).     *)
(*                                                                         *)
(* JavaScript runs one task at a time: the code between two awaits is one  *)
(* atomic step.  Each action below is one such step of one call: the code  *)
(* that runs when the call starts, or when the response it awaits arrives, *)
(* up to the next await (or the return), the caller's continuation after   *)
(* `await this.getSessionId()` included.  The session service is outside   *)
(* the repository: its answers are nondeterministic inputs of the steps.   *)
(*                                                                         *)
(* Every operation begins with the call of getSessionId (lines 72, 98,     *)
(* 119) and nothing it does before that call returns depends on which      *)
(* operation it is: a call records its operation in the step in which      *)
(* getSessionId returns to it.  Where the arguments of a call matter (the  *)
(* body of the append request, the limit of getHistory, the map of         *)
(* updateContext) the call is started with them (StartWith).               *)
(*                                                                         *)
(* The pages that use the SessionManager (Dashboard, ModuleA, ModuleC,     *)
(* ModuleD) and ModuleB are modelled in the same way, one action per       *)
(* handler step, in the variable `ui`; the router shows one page at a      *)
(* time.  A page calls logInteraction without awaiting it: what the page   *)
(* sees of the call is that it was made, and later, if ever, its result.   *)
(***************************************************************************)
EXTENDS Naturals, Sequences, FiniteSets

\* ------------------------------------------------------------------ bounds

\* Number of calls that may be in flight at once (call slots).
NumCalls == 2
\* Number of sessions the session service creates in one run.
MaxSessions == 2

Calls == 1..NumCalls

\* ------------------------------------------------------------ JS values

\* JavaScript null: what localStorage.getItem gives for a missing key, and
\* what getSessionId returns on failure.
Null == "null"
\* JavaScript undefined: data.session_id of a body without that field.
Undefined == "undefined"
\* The 9-character string localStorage.setItem stores for undefined.
StrUndefined == "'undefined'"

\* The opaque ids the session service hands out, in order of creation.
IdNames == <<"s1", "s2", "s3", "s4", "s5">>
SessionIdOf(n) == IdNames[n]
AllIds == {SessionIdOf(n) : n \in 1..MaxSessions}

\* Truthiness of a value as tested by `if (sessionId)` and `!sessionId`:
\* null and undefined are falsy, a non-empty string is truthy.
Truthy(v) == v \notin {Null, Undefined}

\* localStorage.setItem(key, v) stores String(v).
ToStorageString(v) == IF v = Undefined THEN StrUndefined ELSE v

\* A key that JSON.stringify leaves out of the body (a value of undefined).
Absent == "absent"

\* A default parameter (`query = null`, `limit = 50`): an argument that is
\* left out, or passed as undefined, takes the default.
DefaultParam(v, default) == IF v = Undefined THEN default ELSE v

\* JSON.stringify of an object's property: null and strings are written,
\* a property whose value is undefined is left out.
JsonProperty(v) == IF v = Undefined THEN Absent ELSE v

\* ---------------------------------------------------------------- state

VARIABLES
    storage,    \* localStorage.getItem(SESSION_STORAGE_KEY): Null when absent
    created,    \* number of sessions the service has created so far
    calls,      \* the call in each slot: operation, position, locals, history
    context,    \* the context map the service stores for each session
    ui          \* the page on screen: its React state, refs and pending work

vars == <<storage, created, calls, context, ui>>

\* The SessionManager's part of the state.
session == <<storage, created, calls, context>>

Ops == {"getSessionId", "logInteraction", "getHistory", "updateContext"}
Responses == {"ok", "notok", "fail"}
CreateBodies == {"id", "noid", "unparseable"}
HistoryBodies == {"history", "nohistory", "unparseable"}

\* The ids the service knows.
ServerIds == {SessionIdOf(n) : n \in 1..created}

NoWrite == "nowrite"
None == "none"
Pending == [status |-> "pending", value |-> Null]

\* The operation of a call whose getSessionId has not returned yet.
AnyOp == "any"

\* The bodies of a response whose body the code never reads.
UnreadBodies == {"wellformed", "malformed"}

\* The keys of a context map; a map is the set of the keys it binds.
ContextKeys == {"a", "b"}
EmptyContext == {}

\* The arguments of a call.  `given` is false for a call started without
\* them (StartCall), which stands for a call with any arguments.
NoArgs ==
    [ given |-> FALSE,
      interactionType |-> Undefined, query |-> Undefined,
      results |-> Undefined, metadata |-> Undefined,   \* logInteraction
      limitGiven |-> FALSE, limit |-> 0,               \* getHistory
      contextData |-> EmptyContext ]                   \* updateContext

\* What a request carries besides the session id in its URL.
NoPayload ==
    [ interaction_type |-> Absent, query |-> Absent, results |-> Absent,
      metadata |-> Absent,             \* the append request's JSON body
      limit |-> 0,                     \* the history request's ?limit=
      context_data |-> EmptyContext ]  \* the context request's JSON body

IdleCall ==
    [ op |-> "idle", pc |-> "idle",
      sessionId |-> Null,        \* the local variable sessionId
      stored0 |-> Null,          \* what getItem returned when the call started
      valResp |-> None,          \* the answer to the validation request
      createResp |-> None,       \* the answer to the create request
      body |-> None,             \* the body of a successful create response
      bodyId |-> Undefined,      \* data.session_id of that body
      nValidate |-> 0,           \* validation requests issued by this call
      nCreate |-> 0,             \* create requests issued by this call
      nOp |-> 0,                 \* append / history / context requests issued
      wrote |-> NoWrite,         \* the string this call passed to setItem
      gs |-> Pending,            \* how this call's getSessionId ended
      confirmed |-> FALSE,       \* the operation's id was confirmed, not created
      target |-> Null,           \* the id in the URL of the operation's request
      opResp |-> None,           \* the answer to the operation's request
      valBody |-> None,          \* the body of the validation response
      opBody |-> None,           \* the body of the operation's response
      received |-> <<>>,         \* the records of the history response
      args |-> NoArgs,           \* the arguments the call was made with
      sent |-> NoPayload,        \* what the operation's request carried
      first |-> FALSE,           \* an updateContext call that started while
                                 \* no other call was in flight
      prevContext |-> EmptyContext,  \* the context the accepted PUT replaced
      status |-> "pending",      \* how the call itself ended
      ret |-> Null ]             \* the value the call returned

\* -------------------------------------------------- getSessionId's branches

\* Variant: validates whatever getItem returned.
HasStoredIdAlways(sessionId) == TRUE

\* Line 38: whether a stored id is to be validated.
HasStoredId(sessionId) == Truthy(sessionId)

\* Variant: a rejected id ends the call with null instead of a create request.
AfterValidateRejectedGivesUp(resp) ==
    CASE resp = "ok" -> "return"
      [] resp = "notok" -> "null"
      [] resp = "fail" -> "catch"

\* Variant: a transport failure of the validation falls through to the create.
AfterValidateErrorCreates(resp) ==
    CASE resp = "ok" -> "return"
      [] resp = "notok" -> "create"
      [] resp = "fail" -> "create"

\* Variant: a confirmed id is re-provisioned all the same.
AfterValidateAlwaysCreates(resp) ==
    CASE resp = "ok" -> "create"
      [] resp = "notok" -> "create"
      [] resp = "fail" -> "catch"

\* Variant: a confirmed id is not returned.
AfterValidateConfirmedGivesUp(resp) ==
    CASE resp = "ok" -> "null"
      [] resp = "notok" -> "create"
      [] resp = "fail" -> "catch"

\* Lines 40-44: what follows the validation request's answer.
AfterValidate(resp) ==
    CASE resp = "ok" -> "return"       \* response.ok: return sessionId
      [] resp = "notok" -> "create"    \* fall through to the create request
      [] resp = "fail" -> "catch"      \* fetch rejected: the catch block

\* Variant: a refused create request is sent again.
AfterCreateRetries(resp) ==
    CASE resp = "ok" -> "json"
      [] resp = "notok" -> "retry"
      [] resp = "fail" -> "catch"

\* Variant: a create request that fails in transport is sent again.
AfterCreateRetriesOnError(resp) ==
    CASE resp = "ok" -> "json"
      [] resp = "notok" -> "null"
      [] resp = "fail" -> "retry"

\* Variant: the body is read although the create fetch rejected.
AfterCreateParsesOnError(resp) ==
    CASE resp = "ok" -> "json"
      [] resp = "notok" -> "null"
      [] resp = "fail" -> "json"

\* Variant: the body is read without the response.ok test.
AfterCreateIgnoresStatus(resp) ==
    CASE resp = "ok" -> "json"
      [] resp = "notok" -> "json"
      [] resp = "fail" -> "catch"

\* Lines 47-60: what follows the create request's answer.
AfterCreate(resp) ==
    CASE resp = "ok" -> "json"         \* response.ok: await response.json()
      [] resp = "notok" -> "null"      \* return null
      [] resp = "fail" -> "catch"      \* fetch rejected: the catch block

\* Variant: every caller is handed the id of the first session.
SessionIdOfBodyShared(body, fresh) ==
    IF body = "id" THEN SessionIdOf(1) ELSE Undefined

\* Lines 54-55: data.session_id of the parsed body.
SessionIdOfBody(body, fresh) == IF body = "id" THEN fresh ELSE Undefined

\* Variant: the catch block rethrows.
GetSessionIdRethrow == [status |-> "raised", value |-> Null]

\* Lines 61-64: the catch block logs and returns null.
GetSessionIdCatch == [status |-> "returned", value |-> Null]

Returned(v) == [status |-> "returned", value |-> v]

\* ------------------------------------------------ the callers' continuations

\* Variant: logInteraction and updateContext report success without a session.
NeutralTrue(op) == IF op = "getHistory" THEN <<>> ELSE TRUE

\* The neutral value of an operation: `return false` (lines 73, 89, 120, 131)
\* and `return []` (lines 99, 107, 110).
Neutral(op) == IF op = "getHistory" THEN <<>> ELSE FALSE

\* Variant: the URL is built from what is stored when the request is sent.
RequestTargetFromStorage(sessionId, stored) == stored

\* The id in the request URL: API_ENDPOINTS.SESSION_INTERACTIONS(sessionId),
\* SESSION_HISTORY(sessionId), SESSION_CONTEXT(sessionId).
RequestTarget(sessionId, stored) == sessionId

\* ------------------------------------------------ arguments and payloads

\* getHistory(limit = 50), line 96.
DefaultLimit == 50

\* The interaction types the pages log (ModuleD.jsx:442, ModuleC.jsx:33).
InteractionTypes == {"view", "detect"}

\* query, results, metadata as callers pass them: all left out; the pages'
\* (text, object); all three given; query passed as null.
OptionalArgs ==
    { <<Undefined, Undefined, Undefined>>, <<"query", "results", Undefined>>,
      <<"query", "results", "metadata">>, <<Null, "results", Undefined>> }

InteractionArgs ==
    LET all == { [NoArgs EXCEPT !.given = TRUE, !.interactionType = k,
                                !.query = o[1], !.results = o[2],
                                !.metadata = o[3]] :
                    k \in InteractionTypes, o \in OptionalArgs }
    IN {a \in all : a.interactionType = "view" \/ a.query = "query"}

\* getHistory() and getHistory(n).
HistoryArgs ==
    { [NoArgs EXCEPT !.given = TRUE] } \cup
    { [NoArgs EXCEPT !.given = TRUE, !.limitGiven = TRUE, !.limit = n] :
        n \in {1, 2} }

\* updateContext(contextData) with a map of one key.
ContextArgs ==
    { [NoArgs EXCEPT !.given = TRUE, !.contextData = {k}] : k \in ContextKeys }

ArgsOf(op) ==
    CASE op = "logInteraction" -> InteractionArgs
      [] op = "getHistory" -> HistoryArgs
      [] op = "updateContext" -> ContextArgs
      [] OTHER -> { [NoArgs EXCEPT !.given = TRUE] }

\* Variant: no default parameters, an argument left out stays undefined.
InteractionBodyWithoutDefaults(a) ==
    [NoPayload EXCEPT
        !.interaction_type = JsonProperty(a.interactionType),
        !.query = JsonProperty(a.query),
        !.results = JsonProperty(a.results),
        !.metadata = JsonProperty(a.metadata)]

\* Lines 70 and 78-83: the append request's body.
InteractionBody(a) ==
    [NoPayload EXCEPT
        !.interaction_type = JsonProperty(a.interactionType),
        !.query = JsonProperty(DefaultParam(a.query, Null)),
        !.results = JsonProperty(DefaultParam(a.results, Null)),
        !.metadata = JsonProperty(DefaultParam(a.metadata, Null))]

\* Variant: the request always asks for the default number of records.
HistoryQueryDefaultOnly(a) == [NoPayload EXCEPT !.limit = DefaultLimit]

\* Lines 96 and 101: the history request's `?limit=${limit}`.
HistoryQuery(a) ==
    [NoPayload EXCEPT !.limit = IF a.limitGiven THEN a.limit ELSE DefaultLimit]

\* Variant: the request carries an empty map.
ContextBodyEmpty(a) == [NoPayload EXCEPT !.context_data = EmptyContext]

\* Variant: the request carries the map merged into a full set of keys.
ContextBodyMerged(a) ==
    [NoPayload EXCEPT !.context_data = a.contextData \cup ContextKeys]

\* Line 125: the context request's body, the whole map under context_data.
ContextBody(a) == [NoPayload EXCEPT !.context_data = a.contextData]

\* What the request of a call of `op` with arguments `a` carries.
RequestPayload(op, a) ==
    IF ~a.given THEN NoPayload
    ELSE CASE op = "logInteraction" -> InteractionBody(a)
           [] op = "getHistory" -> HistoryQuery(a)
           [] op = "updateContext" -> ContextBody(a)
           [] OTHER -> NoPayload

\* Variant: every response that arrives counts as a success.
ResponseOkAnyStatus(resp) == resp # "fail"

\* response.ok (lines 86, 102, 128): the status is in the range 200-299.
ResponseOk(resp) == resp = "ok"

\* PUT /sessions/{id}/context at the service: the stored map is replaced
\* by the map of the request.
ServerPut(old, data) == data

\* Variant: the operations send their request without the `!sessionId` test.
ResumeCallWithoutIdTest(call, res, stored, op) ==
    LET c == [call EXCEPT !.op = op, !.gs = res] IN
    IF op = "getSessionId"
    THEN [c EXCEPT !.pc = "done", !.status = res.status, !.ret = res.value]
    ELSE [IdleCall EXCEPT !.op = op, !.gs = res, !.pc = "awaitOp", !.nOp = 1,
                          !.confirmed = (call.valResp = "ok"),
                          !.target = RequestTarget(res.value, stored),
                          !.args = call.args, !.first = call.first,
                          !.sent = RequestPayload(op, call.args)]

\* The code that runs when the getSessionId of a call of `op` ends with
\* `res`, with `stored` in localStorage: a getSessionId call is over; the
\* three operations return their neutral value when the id is falsy (or when
\* the await threw, caught by their own catch), and send their request
\* otherwise.  With the request sent, getSessionId's activation is gone: of
\* it the call keeps the result and whether the id was confirmed.  The
\* call keeps its arguments throughout.
ResumeCall(call, res, stored, op) ==
    LET c == [call EXCEPT !.op = op, !.gs = res] IN
    IF op = "getSessionId"
    THEN [c EXCEPT !.pc = "done", !.status = res.status, !.ret = res.value]
    ELSE IF res.status = "raised" \/ ~Truthy(res.value)
    THEN [c EXCEPT !.pc = "done", !.status = "returned", !.ret = Neutral(op)]
    ELSE [IdleCall EXCEPT !.op = op, !.gs = res, !.pc = "awaitOp", !.nOp = 1,
                          !.confirmed = (call.valResp = "ok"),
                          !.target = RequestTarget(res.value, stored),
                          !.args = call.args, !.first = call.first,
                          !.sent = RequestPayload(op, call.args)]

\* No call has a result its caller has not taken yet.
NoneDone == \A d \in Calls : calls[d].pc # "done"

\* ------------------------------------------------------------------ pages

\* App.jsx: the routes.
Pages == {"Dashboard", "ModuleA", "ModuleB", "ModuleC", "ModuleD"}

\* ModuleA.jsx:112, maxAttempts.
MaxAttempts == 360

\* Poll callbacks, or getHistory calls of the Dashboard, awaiting an answer
\* at the same time.
MaxInFlight == 2
\* Timer ticks of the poll interval beyond maxAttempts.
ExtraTicks == 1

\* ModuleA's sketch generation (handleGenerate) before the first click.
GenerationIdle ==
    [ pc |-> "idle",         \* idle, starting, polling, startFailed
      loading |-> FALSE,     \* useState(false), line 9
      sketch |-> Null,       \* useState(null), line 11
      matches |-> <<>>,      \* useState([]), line 12
      interval |-> FALSE,    \* pollInterval is set and not cleared
      attempts |-> 0,        \* let attempts = 0, line 111
      inflight |-> 0,        \* poll callbacks awaiting axios.get
      seen |-> {},           \* what made a callback clear the interval
      logs |-> 0,            \* logInteraction('generate', ...) calls made
      logsPending |-> 0,     \* of them, not settled yet
      logResult |-> None ]   \* the result of the one settled last

\* ModuleA's dictation (toggleListening) before the first click.
DictationIdle ==
    [ isListening |-> FALSE,   \* useState(false), line 20
      shouldStop |-> FALSE,    \* shouldStopRef, line 22
      engine |-> "none",       \* the recognition object: none (no session),
                               \* starting, listening, ending
      erred |-> FALSE,         \* onerror has fired since the last toggle
      restarted |-> FALSE,     \* onend has called start() since then
      threw |-> FALSE ]        \* and the last such start() threw

\* ModuleB (handleUploadAndAnalyze) with a file chosen or not.
ModuleBIdle ==
    [ pc |-> "idle",           \* idle, awaitAuth, awaitSearch
      loading |-> FALSE, authResult |-> Null, searchResults |-> <<>>,
      auth |-> None,           \* how the upload-image request was answered
      searches |-> 0 ]         \* search requests sent by this run

\* ModuleC (handleCheck).
ModuleCIdle ==
    [ pc |-> "idle",           \* idle, awaitDetect, awaitLog
      loading |-> FALSE, result |-> Null,
      primary |-> None,        \* how the detect-deepfake request was answered
      logs |-> 0, logsPending |-> 0, logResult |-> None ]

\* ModuleD (handleDelete and the reloads it starts).
ModuleDIdle ==
    [ pc |-> "idle",           \* idle, awaitDelete
      loading |-> FALSE,       \* set by loadSuspects
      suspects |-> "listed",   \* listed; reloaded after a delete
      stats |-> "shown",
      primary |-> None,        \* how the delete request was answered
      suspectsPending |-> FALSE, statsPending |-> FALSE,
      reload |-> None, restat |-> None,   \* how the reloads were answered
      logs |-> 0, logsPending |-> 0, logResult |-> None ]

\* The Dashboard before it is mounted.
DashboardIdle ==
    [ life |-> "initial",      \* initial, mounted, unmounted
      interval |-> FALSE,      \* setInterval(fetchHistory, 30000) is active
      history |-> <<>>,        \* useState([]), line 7
      count |-> 0,             \* sessionStats.count, line 8
      inflight |-> 0,          \* getHistory calls awaiting their result
      limit |-> 0 ]            \* the argument of the last getHistory call

PageIdle(page) ==
    [ page |-> page,
      generation |-> GenerationIdle, dictation |-> DictationIdle,
      moduleB |-> ModuleBIdle, moduleC |-> ModuleCIdle,
      moduleD |-> ModuleDIdle, dashboard |-> DashboardIdle ]

\* No page is followed.
NoPage == PageIdle(None)

\* ---------------------------------------------------------------- actions

Init ==
    /\ storage = Null
    /\ created = 0
    /\ calls = [c \in Calls |-> IdleCall]
    /\ context = [s \in AllIds |-> EmptyContext]
    /\ ui = NoPage

\* The operations a call can turn out to be when its getSessionId returns.
OpsOf(call) == IF call.op = AnyOp THEN Ops ELSE {call.op}

\* getSessionId returns `res` to call c, whichever operation made the call,
\* and that operation runs on to its next await or to its return.
Resume(c, call, res, stored) ==
    \E op \in OpsOf(call) :
        calls' = [calls EXCEPT ![c] = ResumeCall(call, res, stored, op)]

\* A call starts: getSessionId reads localStorage and sends either the
\* validation request (lines 36-40) or the create request (line 47).
StartCall(c) ==
    /\ calls[c].pc = "idle"
    /\ NoneDone
    /\ LET sid == storage
           c0 == [IdleCall EXCEPT !.op = AnyOp, !.sessionId = sid, !.stored0 = sid]
       IN calls' = [calls EXCEPT ![c] =
            IF HasStoredId(sid)
            THEN [c0 EXCEPT !.pc = "awaitValidate", !.nValidate = 1]
            ELSE [c0 EXCEPT !.pc = "awaitCreate", !.nCreate = 1]]
    /\ UNCHANGED <<storage, created, context, ui>>

\* A call of `op` with arguments `args` starts, as StartCall.
StartWith(c, op, args) ==
    /\ calls[c].pc = "idle"
    /\ NoneDone
    /\ LET sid == storage
           c0 == [IdleCall EXCEPT !.op = op, !.args = args,
                                  !.sessionId = sid, !.stored0 = sid,
                                  !.first = op = "updateContext" /\
                                        \A d \in Calls : calls[d].pc = "idle"]
       IN calls' = [calls EXCEPT ![c] =
            IF HasStoredId(sid)
            THEN [c0 EXCEPT !.pc = "awaitValidate", !.nValidate = 1]
            ELSE [c0 EXCEPT !.pc = "awaitCreate", !.nCreate = 1]]
    /\ UNCHANGED <<storage, created, context, ui>>

\* The validation request (GET /sessions/{id}) is answered.  The service
\* confirms only ids it has created.  A response with a success status has
\* a body, which the code does not read.
ValidateResponse(c, resp, body) ==
    /\ calls[c].pc = "awaitValidate"
    /\ NoneDone
    /\ resp = "ok" => calls[c].sessionId \in ServerIds
    /\ body \in UnreadBodies <=> resp = "ok"
    /\ LET c0 == [calls[c] EXCEPT !.valResp = resp, !.valBody = body]
           branch == AfterValidate(resp)
       IN CASE branch = "return" -> Resume(c, c0, Returned(c0.sessionId), storage)
            [] branch = "create" ->
                 calls' = [calls EXCEPT ![c] =
                             [c0 EXCEPT !.pc = "awaitCreate", !.nCreate = @ + 1]]
            [] branch = "null" -> Resume(c, c0, Returned(Null), storage)
            [] OTHER -> Resume(c, c0, GetSessionIdCatch, storage)
    /\ UNCHANGED <<storage, created, context, ui>>

\* The create request (POST /sessions) is answered.
CreateResponse(c, resp) ==
    /\ calls[c].pc = "awaitCreate"
    /\ NoneDone
    /\ LET c0 == [calls[c] EXCEPT !.createResp = resp]
           branch == AfterCreate(resp)
       IN CASE branch = "json" ->
                 calls' = [calls EXCEPT ![c] = [c0 EXCEPT !.pc = "awaitCreateJson"]]
            [] branch = "null" -> Resume(c, c0, Returned(Null), storage)
            [] branch = "retry" ->
                 calls' = [calls EXCEPT ![c] = [c0 EXCEPT !.nCreate = @ + 1]]
            [] OTHER -> Resume(c, c0, GetSessionIdCatch, storage)
    /\ UNCHANGED <<storage, created, context, ui>>

\* The create response's body has been read (lines 54-57): a body that does
\* not parse rejects into the catch block; otherwise data.session_id is
\* stored and returned.  A well-formed body carries the id of the session
\* the service has just created.
CreateJson(c, body) ==
    /\ calls[c].pc = "awaitCreateJson"
    /\ NoneDone
    /\ body = "id" => created < MaxSessions
    /\ LET c0 == [calls[c] EXCEPT !.body = body] IN
       IF body = "unparseable"
       THEN /\ Resume(c, c0, GetSessionIdCatch, storage)
            /\ UNCHANGED <<storage, created, ui>>
       ELSE LET sid == SessionIdOfBody(body, SessionIdOf(created + 1))
                st == ToStorageString(sid)
                c1 == [c0 EXCEPT !.bodyId = sid, !.sessionId = sid, !.wrote = st]
            IN /\ storage' = st
               /\ created' = IF body = "id" THEN created + 1 ELSE created
               /\ Resume(c, c1, Returned(sid), st)
    /\ UNCHANGED <<context, ui>>

\* The operation's own request is answered: logInteraction and updateContext
\* return response.ok (lines 86, 128), false from their catch block;
\* getHistory goes on to read the body (line 103) or returns [].  The body
\* of an append or context response is never read.  The service answers a
\* context request with success when it has replaced the session's map.
OpResponse(c, resp, body) ==
    /\ calls[c].pc = "awaitOp"
    /\ NoneDone
    /\ body \in UnreadBodies <=> (resp = "ok" /\ calls[c].op # "getHistory")
    /\ body \notin UnreadBodies => body = None
    /\ LET c0 == [calls[c] EXCEPT !.opResp = resp, !.opBody = body]
           put == c0.op = "updateContext" /\ c0.args.given /\ resp = "ok"
       IN /\ calls' = [calls EXCEPT ![c] =
                IF c0.op = "getHistory"
                THEN IF ResponseOk(resp)
                     THEN [c0 EXCEPT !.pc = "awaitHistoryJson"]
                     ELSE [c0 EXCEPT !.pc = "done", !.status = "returned",
                                     !.ret = <<>>]
                ELSE [c0 EXCEPT !.pc = "done", !.status = "returned",
                                !.ret = ResponseOk(resp),
                                !.prevContext =
                                    IF put THEN context[c0.target] ELSE @]]
          /\ context' =
                IF put
                THEN [context EXCEPT ![c0.target] =
                        ServerPut(@, c0.sent.context_data)]
                ELSE context
    /\ UNCHANGED <<storage, created, ui>>

\* The records a history response can carry.
HistoryLists == {<<>>, <<"r1">>, <<"r1", "r2">>}

\* Lines 103-104 and 108-110: `data.history || []` of a parsed body, and
\* [] from the catch block when the body does not parse.
HistoryOf(body, list) == IF body = "history" THEN list ELSE <<>>

\* The history response's body has been read (lines 103-104):
\* `data.history || []`, and [] from the catch block when it does not parse.
HistoryJson(c, body, list) ==
    /\ calls[c].pc = "awaitHistoryJson"
    /\ NoneDone
    /\ body # "history" => list = <<>>
    /\ calls' = [calls EXCEPT ![c] =
            [@ EXCEPT !.pc = "done", !.status = "returned", !.opBody = body,
                      !.received = list, !.ret = HistoryOf(body, list)]]
    /\ UNCHANGED <<storage, created, context, ui>>

\* Variant: clearSession stores null under the key, which localStorage
\* keeps as the 4-character string.
ClearSessionStoresNull ==
    /\ NoneDone
    /\ storage' = "'null'"
    /\ UNCHANGED <<created, calls, context, ui>>

\* clearSession as it would be if it also cancelled the calls in flight.
ClearSessionCancels ==
    /\ NoneDone
    /\ storage' = Null
    /\ calls' = [c \in Calls |-> IdleCall]
    /\ UNCHANGED <<created, context, ui>>

\* clearSession (lines 138-140): removeItem, and nothing else.
ClearSession ==
    /\ NoneDone
    /\ storage' = Null
    /\ UNCHANGED <<created, calls, context, ui>>

\* The caller takes the call's result; the slot is free again.  The
\* microtask that settles a call's promise runs the caller's continuation at
\* once, which is why every other step waits for it (NoneDone).
Finish(c) ==
    /\ calls[c].pc = "done"
    /\ calls' = [calls EXCEPT ![c] = IdleCall]
    /\ UNCHANGED <<storage, created, context, ui>>

Next ==
    \/ \E c \in Calls : StartCall(c)
    \/ \E c \in Calls, resp \in Responses, body \in UnreadBodies \cup {None} :
            ValidateResponse(c, resp, body)
    \/ \E c \in Calls, resp \in Responses : CreateResponse(c, resp)
    \/ \E c \in Calls, body \in CreateBodies : CreateJson(c, body)
    \/ \E c \in Calls, resp \in Responses, body \in UnreadBodies \cup {None} :
            OpResponse(c, resp, body)
    \/ \E c \in Calls, body \in HistoryBodies, list \in HistoryLists :
            HistoryJson(c, body, list)
    \/ ClearSession
    \/ \E c \in Calls : Finish(c)

Spec == Init /\ [][Next]_vars

\* ------------------------------------------------------------- scenarios

\* Calls with their arguments on a client whose stored session the service
\* knows: the service confirms the id, or cannot be reached.
ArgsInit ==
    /\ storage = SessionIdOf(1)
    /\ created = 1
    /\ calls = [c \in Calls |-> IdleCall]
    /\ context = [s \in AllIds |-> EmptyContext]
    /\ ui = NoPage

ArgsNext ==
    \/ \E c \in Calls, op \in Ops : \E args \in ArgsOf(op) : StartWith(c, op, args)
    \/ \E c \in Calls, resp \in {"ok", "fail"}, body \in UnreadBodies \cup {None} :
            ValidateResponse(c, resp, body)
    \/ \E c \in Calls, resp \in Responses, body \in UnreadBodies \cup {None} :
            OpResponse(c, resp, body)
    \/ \E c \in Calls, body \in HistoryBodies, list \in HistoryLists :
            HistoryJson(c, body, list)
    \/ \E c \in Calls : Finish(c)

ArgsSpec == ArgsInit /\ [][ArgsNext]_vars

\* getSessionId calls that start on a fresh client before anything has been
\* written to localStorage.  Their results stay on record once taken.
RaceStart(c) ==
    /\ storage = Null
    /\ \E args \in ArgsOf("getSessionId") : StartWith(c, "getSessionId", args)

\* The caller takes the call's result; the record of the call is kept.
Take(c) ==
    /\ calls[c].pc = "done"
    /\ calls' = [calls EXCEPT ![c].pc = "taken"]
    /\ UNCHANGED <<storage, created, context, ui>>

RaceNext ==
    \/ \E c \in Calls : RaceStart(c)
    \/ \E c \in Calls, resp \in Responses : CreateResponse(c, resp)
    \/ \E c \in Calls, body \in CreateBodies : CreateJson(c, body)
    \/ \E c \in Calls : Take(c)

RaceSpec == Init /\ [][RaceNext]_vars

\* The four operations while the service cannot be reached: every fetch
\* rejects.  The client starts with or without a stored id.
DownInit ==
    /\ storage \in {Null, SessionIdOf(1)}
    /\ created = IF storage = Null THEN 0 ELSE 1
    /\ calls = [c \in Calls |-> IdleCall]
    /\ context = [s \in AllIds |-> EmptyContext]
    /\ ui = NoPage

DownNext ==
    \/ \E c \in Calls, op \in Ops : \E args \in ArgsOf(op) : StartWith(c, op, args)
    \/ \E c \in Calls : ValidateResponse(c, "fail", None)
    \/ \E c \in Calls : CreateResponse(c, "fail")
    \/ \E c \in Calls : Finish(c)

DownSpec == DownInit /\ [][DownNext]_vars

\* getSessionId calls and a user who clears the session only while a create
\* request is pending and no validation request is.
ClearDuringCreate ==
    /\ \E c \in Calls : calls[c].pc \in {"awaitCreate", "awaitCreateJson"}
    /\ \A c \in Calls : calls[c].pc # "awaitValidate"
    /\ ClearSession

ClearNext ==
    \/ \E c \in Calls : \E args \in ArgsOf("getSessionId") :
            StartWith(c, "getSessionId", args)
    \/ \E c \in Calls, resp \in Responses, body \in UnreadBodies \cup {None} :
            ValidateResponse(c, resp, body)
    \/ \E c \in Calls, resp \in Responses : CreateResponse(c, resp)
    \/ \E c \in Calls, body \in CreateBodies : CreateJson(c, body)
    \/ ClearDuringCreate
    \/ \E c \in Calls : Finish(c)

ClearSpec == Init /\ [][ClearNext]_vars

\* ------------------------------------------- ModuleA: sketch generation

\* An axios request resolves on a response with a success status and
\* rejects on any other response and on a transport error.
AxiosResolves(resp) == resp = "ok"

\* What a poll callback makes of the answer to its check-status request
\* (lines 125-152): `out` is the job status of the response ("completed",
\* "failed", "running") or "error" when the request rejects; `attempts` is
\* the shared counter when the callback resumes.  A rejected request lands
\* in the catch block, which only logs.
PollBranch(out, attempts) ==
    CASE out = "error" -> "continue"
      [] out = "completed" -> "completed"
      [] out = "failed" -> "failed"
      [] attempts >= MaxAttempts -> "timeout"
      [] OTHER -> "continue"

PollOutcomes == {"completed", "failed", "running", "error"}

\* The Generate button is enabled while loading is false (line 209); one
\* job is followed.  Lines 97-103: setLoading(true), and the start request
\* is sent.
HandleGenerate ==
    /\ ui.page = "ModuleA"
    /\ ui.generation.pc = "idle" /\ ~ui.generation.loading
    /\ ui' = [ui EXCEPT !.generation.pc = "starting",
                        !.generation.loading = TRUE]
    /\ UNCHANGED session

\* The start request is answered: the interval is set with attempts = 0
\* (lines 107-114), or the outer catch block alerts and resets loading
\* (lines 155-159).
StartResponse(resp) ==
    /\ ui.page = "ModuleA"
    /\ ui.generation.pc = "starting"
    /\ ui' = IF AxiosResolves(resp)
             THEN [ui EXCEPT !.generation.pc = "polling",
                             !.generation.interval = TRUE,
                             !.generation.attempts = 0]
             ELSE [ui EXCEPT !.generation.pc = "startFailed",
                             !.generation.loading = FALSE]
    /\ UNCHANGED session

\* The interval fires (lines 114-118): attempts++, and a check-status
\* request is sent.
Tick ==
    /\ ui.page = "ModuleA"
    /\ ui.generation.interval
    /\ ui.generation.inflight < MaxInFlight
    /\ ui.generation.attempts < MaxAttempts + ExtraTicks
    /\ ui' = [ui EXCEPT !.generation.attempts = @ + 1,
                        !.generation.inflight = @ + 1]
    /\ UNCHANGED session

\* A check-status request is answered and its callback runs to its end
\* (lines 119-152), whether or not the interval has been cleared meanwhile.
PollResponse(out) ==
    /\ ui.page = "ModuleA"
    /\ ui.generation.inflight > 0
    /\ LET g == [ui.generation EXCEPT !.inflight = @ - 1]
           branch == PollBranch(out, g.attempts)
           ended == [g EXCEPT !.interval = FALSE, !.loading = FALSE,
                              !.seen = @ \cup {branch}]
       IN ui' = [ui EXCEPT !.generation =
            CASE branch = "completed" ->
                   [ended EXCEPT !.sketch = "sketch", !.matches = <<"match">>,
                                 !.logs = @ + 1, !.logsPending = @ + 1]
              [] branch \in {"failed", "timeout"} -> ended
              [] OTHER -> g]
    /\ UNCHANGED session

\* A logInteraction('generate', ...) call settles with true or false; its
\* promise is dropped (line 135).
GenerateLogSettles(result) ==
    /\ ui.page = "ModuleA"
    /\ ui.generation.logsPending > 0
    /\ ui' = [ui EXCEPT !.generation.logsPending = @ - 1,
                        !.generation.logResult = result]
    /\ UNCHANGED session

\* ------------------------------------------------- ModuleA: dictation

\* The recognition service as the Web Speech API describes it: a session
\* fires start when it has begun to listen, an error event is followed by
\* the end event, and end is fired whenever a session is over, whatever the
\* reason.  One session exists at a time: the user starts a new one when
\* the previous one has ended.
ErrorKinds == {"not-allowed", "no-speech"}

\* toggleListening (lines 25-87).  While listening: the stop flag is set,
\* the session is told to stop and isListening is reset (lines 26-32).
\* Otherwise the flag is reset and a new session is started with its
\* handlers (lines 40-86).
ToggleListening ==
    /\ ui.page = "ModuleA"
    /\ LET d == [ui.dictation EXCEPT !.erred = FALSE, !.restarted = FALSE,
                                     !.threw = FALSE]
       IN IF ui.dictation.isListening
          THEN ui' = [ui EXCEPT !.dictation =
                   [d EXCEPT !.shouldStop = TRUE, !.isListening = FALSE,
                             !.engine = IF @ = "none" THEN "none" ELSE "ending"]]
          ELSE /\ ui.dictation.engine = "none"
               /\ ui' = [ui EXCEPT !.dictation =
                        [d EXCEPT !.shouldStop = FALSE, !.engine = "starting"]]
    /\ UNCHANGED session

\* onstart (lines 48-50).
OnStart ==
    /\ ui.page = "ModuleA"
    /\ ui.dictation.engine = "starting"
    /\ ui' = [ui EXCEPT !.dictation.engine = "listening",
                        !.dictation.isListening = TRUE]
    /\ UNCHANGED session

\* onerror (lines 64-70): isListening is reset for the two permission
\* errors; nothing else changes.  The session is over: end follows.
OnError(kind) ==
    /\ ui.page = "ModuleA"
    /\ ui.dictation.engine \in {"starting", "listening"}
    /\ ui' = [ui EXCEPT !.dictation.engine = "ending",
                        !.dictation.erred = TRUE,
                        !.dictation.isListening =
                            IF kind = "not-allowed" THEN FALSE ELSE @]
    /\ UNCHANGED session

\* What onend does (lines 74-83): "stop" after the user's stop; otherwise
\* recognition.start() is called, and throws or not.
OnEndBranchAlwaysRestarts(shouldStop, throws) ==
    IF throws THEN "threw" ELSE "restart"

OnEndBranch(shouldStop, throws) ==
    IF shouldStop THEN "stop"
    ELSE IF throws THEN "threw" ELSE "restart"

\* onend (lines 72-84): the session has ended, by itself, after stop() or
\* after an error.
OnEnd(throws) ==
    /\ ui.page = "ModuleA"
    /\ ui.dictation.engine \in {"listening", "ending"}
    /\ LET branch == OnEndBranch(ui.dictation.shouldStop, throws) IN
       ui' = [ui EXCEPT !.dictation =
            CASE branch = "stop" ->
                   [@ EXCEPT !.engine = "none", !.isListening = FALSE]
              [] branch = "threw" ->
                   [@ EXCEPT !.engine = "none", !.isListening = FALSE,
                             !.restarted = TRUE, !.threw = TRUE]
              [] OTHER ->
                   [@ EXCEPT !.engine = "starting", !.restarted = TRUE,
                             !.threw = FALSE]]
    /\ UNCHANGED session

\* ---------------------------------------------------------- Dashboard

\* Dashboard, line 12: the argument of getHistory.
DashboardLimit == 5

\* fetchHistory up to its await (line 12): a getHistory call is started.
FetchHistory(d) == [d EXCEPT !.inflight = @ + 1, !.limit = DashboardLimit]

\* The effect runs when the Dashboard is mounted (lines 10-20): one fetch,
\* and the interval is set.
Mount ==
    /\ ui.page = "Dashboard"
    /\ ui.dashboard.life = "initial"
    /\ ui' = [ui EXCEPT !.dashboard =
                [FetchHistory(@) EXCEPT !.life = "mounted", !.interval = TRUE]]
    /\ UNCHANGED session

\* The interval fires (line 19).
DashboardTick ==
    /\ ui.page = "Dashboard"
    /\ ui.dashboard.interval
    /\ ui.dashboard.inflight < MaxInFlight
    /\ ui' = [ui EXCEPT !.dashboard = FetchHistory(@)]
    /\ UNCHANGED session

\* getHistory resolves with a list (lines 13-14); it never rejects.  React
\* drops the state updates of a component that is no longer mounted.
HistoryArrives(data) ==
    /\ ui.page = "Dashboard"
    /\ ui.dashboard.inflight > 0
    /\ ui' = [ui EXCEPT !.dashboard =
                IF @.life = "mounted"
                THEN [@ EXCEPT !.inflight = @ - 1, !.history = data,
                               !.count = Len(data)]
                ELSE [@ EXCEPT !.inflight = @ - 1]]
    /\ UNCHANGED session

\* The effect's cleanup as it would be without clearInterval.
UnmountKeepsInterval ==
    /\ ui.page = "Dashboard"
    /\ ui.dashboard.life = "mounted"
    /\ ui' = [ui EXCEPT !.dashboard.life = "unmounted"]
    /\ UNCHANGED session

\* The Dashboard is unmounted: the effect's cleanup clears the interval
\* (line 20).
Unmount ==
    /\ ui.page = "Dashboard"
    /\ ui.dashboard.life = "mounted"
    /\ ui' = [ui EXCEPT !.dashboard.life = "unmounted",
                        !.dashboard.interval = FALSE]
    /\ UNCHANGED session

\* ------------------------------------------------------------ ModuleB

\* How the upload-image request can be answered: a success response whose
\* body says is_real true, says anything else, or is no object at all; or a
\* rejection (error status, transport error, timeout).
AuthOutcomes == {"real", "fake", "nodata", "rejected"}

\* What handleUploadAndAnalyze does after the upload-image request (lines
\* 41-60): "search" under `if (authResponse.data.is_real)`, "skip" in its
\* else branch, "catch" when the await or the read of is_real throws.
AfterAuthAlwaysSearches(auth) ==
    IF auth \in {"rejected", "nodata"} THEN "catch" ELSE "search"

AfterAuth(auth) ==
    CASE auth = "real" -> "search"
      [] auth = "fake" -> "skip"
      [] OTHER -> "catch"

\* The Analyze button is enabled with a file chosen while loading is false
\* (line 128).  Lines 29-38: setLoading(true); the upload request is sent.
HandleUploadAndAnalyze ==
    /\ ui.page = "ModuleB"
    /\ ui.moduleB.pc = "idle" /\ ~ui.moduleB.loading
    /\ ui' = [ui EXCEPT !.moduleB =
                [@ EXCEPT !.pc = "awaitAuth", !.loading = TRUE,
                          !.auth = None, !.searches = 0]]
    /\ UNCHANGED session

\* The upload-image request is answered (lines 38-60, 76-78).
AuthResponse(auth) ==
    /\ ui.page = "ModuleB"
    /\ ui.moduleB.pc = "awaitAuth"
    /\ LET branch == AfterAuth(auth)
           b == [ui.moduleB EXCEPT
                    !.auth = auth,
                    !.authResult = CASE auth = "rejected" -> @
                                     [] auth = "nodata" -> Null
                                     [] OTHER -> auth]
       IN ui' = [ui EXCEPT !.moduleB =
            IF branch = "search"
            THEN [b EXCEPT !.pc = "awaitSearch", !.searches = @ + 1]
            ELSE [b EXCEPT !.pc = "idle", !.loading = FALSE]]
    /\ UNCHANGED session

\* The search request is answered (lines 52-57, 61-78).
SearchResponse(resp) ==
    /\ ui.page = "ModuleB"
    /\ ui.moduleB.pc = "awaitSearch"
    /\ ui' = [ui EXCEPT !.moduleB =
                [@ EXCEPT !.pc = "idle", !.loading = FALSE,
                          !.searchResults =
                              IF AxiosResolves(resp) THEN <<"result">> ELSE @]]
    /\ UNCHANGED session

\* ------------------------------------------------------------ ModuleC

\* How the detect-deepfake request can be answered: a success response
\* with the verdict, a success response whose body is no object, or a
\* rejection.
DetectOutcomes == {"data", "nodata", "rejected"}

\* What handleCheck does after the detect request (lines 27-42): with a
\* verdict it shows it and calls logInteraction('detect', ...); a body that
\* is no object makes the read of response.data.is_real throw while the
\* call's arguments are built (line 34); a rejection skips both.
AfterDetectAlwaysLogs(out) == "log"

AfterDetect(out) ==
    CASE out = "data" -> "log"
      [] out = "nodata" -> "throw"
      [] OTHER -> "catch"

\* The pages write `SessionManager.logInteraction(...)` as a statement of
\* its own, without await (ModuleC line 33, ModuleD line 103, ModuleA line
\* 135): the handler goes on at once.
LogIsAwaitedYes == TRUE

LogIsAwaited == FALSE

\* The Check button is enabled with a file chosen while loading is false
\* (line 72); one check is followed.  Lines 22-27.
HandleCheck ==
    /\ ui.page = "ModuleC"
    /\ ui.moduleC.pc = "idle" /\ ~ui.moduleC.loading
    /\ ui.moduleC.primary = None
    /\ ui' = [ui EXCEPT !.moduleC.pc = "awaitDetect",
                        !.moduleC.loading = TRUE]
    /\ UNCHANGED session

\* The detect request is answered (lines 27-45): setResult and the log
\* call, or the catch block; then the finally block.
DetectResponse(out) ==
    /\ ui.page = "ModuleC"
    /\ ui.moduleC.pc = "awaitDetect"
    /\ LET branch == AfterDetect(out)
           m == [ui.moduleC EXCEPT !.primary = out]
           shown == [m EXCEPT !.result = IF out = "rejected" THEN @
                                         ELSE IF out = "data" THEN "data"
                                         ELSE Null]
           over == [shown EXCEPT !.pc = "idle", !.loading = FALSE]
       IN ui' = [ui EXCEPT !.moduleC =
            IF branch = "log"
            THEN IF LogIsAwaited
                 THEN [shown EXCEPT !.pc = "awaitLog",
                                    !.logs = @ + 1, !.logsPending = @ + 1]
                 ELSE [over EXCEPT !.logs = @ + 1, !.logsPending = @ + 1]
            ELSE over]
    /\ UNCHANGED session

\* The logInteraction('detect', ...) call settles with true or false.
DetectLogSettles(result) ==
    /\ ui.page = "ModuleC"
    /\ ui.moduleC.logsPending > 0
    /\ ui' = [ui EXCEPT !.moduleC =
                [@ EXCEPT !.logsPending = @ - 1, !.logResult = result,
                          !.pc = IF @ = "awaitLog" THEN "idle" ELSE @,
                          !.loading = IF ui.moduleC.pc = "awaitLog"
                                      THEN FALSE ELSE @]]
    /\ UNCHANGED session

\* ------------------------------------------------------------ ModuleD

\* handleDelete (lines 93-97): the user has confirmed and the delete
\* request is sent.  One delete is followed.
HandleDelete ==
    /\ ui.page = "ModuleD"
    /\ ui.moduleD.pc = "idle"
    /\ ui.moduleD.primary = None
    /\ ui' = [ui EXCEPT !.moduleD.pc = "awaitDelete"]
    /\ UNCHANGED session

\* The delete request is answered (lines 97-109): on success loadSuspects
\* (which sets loading, line 68) and loadStats are started and
\* logInteraction('delete', ...) is called; a rejection alerts only.
DeleteResponse(resp) ==
    /\ ui.page = "ModuleD"
    /\ ui.moduleD.pc = "awaitDelete"
    /\ LET m == [ui.moduleD EXCEPT !.pc = "idle", !.primary = resp] IN
       ui' = [ui EXCEPT !.moduleD =
            IF AxiosResolves(resp)
            THEN [m EXCEPT !.loading = TRUE, !.suspectsPending = TRUE,
                           !.statsPending = TRUE,
                           !.logs = @ + 1, !.logsPending = @ + 1]
            ELSE m]
    /\ UNCHANGED session

\* loadSuspects after its await (lines 70-81).
SuspectsResponse(resp) ==
    /\ ui.page = "ModuleD"
    /\ ui.moduleD.suspectsPending
    /\ ui' = [ui EXCEPT !.moduleD =
                [@ EXCEPT !.suspectsPending = FALSE, !.loading = FALSE,
                          !.reload = resp,
                          !.suspects = IF AxiosResolves(resp)
                                       THEN "reloaded" ELSE @]]
    /\ UNCHANGED session

\* loadStats after its await (lines 86-90).
StatsResponse(resp) ==
    /\ ui.page = "ModuleD"
    /\ ui.moduleD.statsPending
    /\ ui' = [ui EXCEPT !.moduleD =
                [@ EXCEPT !.statsPending = FALSE, !.restat = resp,
                          !.stats = IF AxiosResolves(resp)
                                    THEN "reloaded" ELSE @]]
    /\ UNCHANGED session

\* The logInteraction('delete', ...) call settles with true or false.
DeleteLogSettles(result) ==
    /\ ui.page = "ModuleD"
    /\ ui.moduleD.logsPending > 0
    /\ ui' = [ui EXCEPT !.moduleD.logsPending = @ - 1,
                        !.moduleD.logResult = result]
    /\ UNCHANGED session

\* -------------------------------------------------------- the pages' spec

PagesInit ==
    /\ storage = Null
    /\ created = 0
    /\ calls = [c \in Calls |-> IdleCall]
    /\ context = [s \in AllIds |-> EmptyContext]
    /\ ui \in {PageIdle(page) : page \in Pages}

PagesNext ==
    \/ HandleGenerate
    \/ \E resp \in Responses : StartResponse(resp)
    \/ Tick
    \/ \E out \in PollOutcomes : PollResponse(out)
    \/ \E result \in BOOLEAN : GenerateLogSettles(result)
    \/ ToggleListening
    \/ OnStart
    \/ \E kind \in ErrorKinds : OnError(kind)
    \/ \E throws \in BOOLEAN : OnEnd(throws)
    \/ Mount
    \/ DashboardTick
    \/ \E data \in HistoryLists : HistoryArrives(data)
    \/ Unmount
    \/ HandleUploadAndAnalyze
    \/ \E auth \in AuthOutcomes : AuthResponse(auth)
    \/ \E resp \in Responses : SearchResponse(resp)
    \/ HandleCheck
    \/ \E out \in DetectOutcomes : DetectResponse(out)
    \/ \E result \in BOOLEAN : DetectLogSettles(result)
    \/ HandleDelete
    \/ \E resp \in Responses : DeleteResponse(resp)
    \/ \E resp \in Responses : SuspectsResponse(resp)
    \/ \E resp \in Responses : StatsResponse(resp)
    \/ \E result \in BOOLEAN : DeleteLogSettles(result)

PagesSpec == PagesInit /\ [][PagesNext]_vars

\* ----------------------------------------------------------------- claims

\* The call's getSessionId has ended (returned or raised).
Resolved(c) == calls[c].gs.status # "pending"

\* The step in which call c's getSessionId ends.
Resolves(c) == calls[c].gs.status = "pending" /\ calls'[c].gs.status # "pending"

\* C1: getSessionId never raises, whatever the service answers: it ends by
\* returning a non-empty session id or an empty result (null, or undefined
\* for a body without session_id), and a getSessionId call returns that.
C1_NeverRaises ==
    \A c \in Calls : Resolved(c) =>
        /\ calls[c].gs.status = "returned"
        /\ Truthy(calls[c].gs.value) => calls[c].gs.value \in AllIds
        /\ calls[c].op = "getSessionId" =>
              /\ calls[c].pc = "done"
              /\ calls[c].status = "returned"
              /\ calls[c].ret = calls[c].gs.value

\* A getSessionId call whose create response did not parse has returned null.
C1_Witness ==
    \E c \in Calls :
        /\ calls[c].op = "getSessionId" /\ calls[c].pc = "done"
        /\ calls[c].body = "unparseable" /\ calls[c].ret = Null

\* C2: on a fresh client (nothing stored) whose create request is accepted
\* with an id, getSessionId issues no validation request and exactly one
\* create request, stores the id the service returned and returns that id.
C2_FreshCreate ==
    \A c \in Calls :
        ( /\ calls[c].op = "getSessionId" /\ calls[c].pc = "done"
          /\ calls[c].stored0 = Null
          /\ calls[c].createResp = "ok" /\ calls[c].body = "id" ) =>
        /\ calls[c].nValidate = 0
        /\ calls[c].nCreate = 1
        /\ calls[c].bodyId \in ServerIds
        /\ calls[c].wrote = calls[c].bodyId
        /\ calls[c].ret = calls[c].bodyId

\* A fresh client's getSessionId has created, stored and returned an id.
C2_Witness ==
    \E c \in Calls :
        /\ calls[c].op = "getSessionId" /\ calls[c].pc = "done"
        /\ calls[c].stored0 = Null /\ calls[c].body = "id"
        /\ calls[c].ret \in AllIds /\ storage = calls[c].ret

\* C3: when the stored id is rejected by the validation request (non-success
\* answer), the call issues exactly one create request, and when that
\* succeeds the new id is written over the stale one and returned.
C3_RejectedReprovisions ==
    \A c \in Calls : calls[c].valResp = "notok" =>
        /\ calls[c].nCreate = 1
        /\ (Resolved(c) /\ calls[c].createResp = "ok" /\ calls[c].body = "id") =>
              /\ calls[c].wrote = calls[c].bodyId
              /\ calls[c].wrote # calls[c].stored0
              /\ calls[c].gs = Returned(calls[c].bodyId)
              /\ calls[c].op = "getSessionId" => calls[c].ret = calls[c].bodyId

\* A getSessionId call that found a stale id has replaced it by a new one.
C3_Witness ==
    \E c \in Calls :
        /\ calls[c].op = "getSessionId" /\ calls[c].pc = "done"
        /\ calls[c].valResp = "notok" /\ calls[c].body = "id"
        /\ calls[c].stored0 \in AllIds
        /\ storage = calls[c].ret /\ storage # calls[c].stored0

\* C4 as stated: when the validation request fails in transport, the call
\* still issues a create request.
C4_Original ==
    \A c \in Calls :
        (calls[c].valResp = "fail" /\ Resolved(c)) => calls[c].nCreate >= 1

\* C4 as amended: when the validation request fails in transport, the call
\* issues no create request, writes nothing and getSessionId returns null.
C4_TransportFailureGivesUp ==
    \A c \in Calls : calls[c].valResp = "fail" =>
        /\ calls[c].nCreate = 0
        /\ calls[c].wrote = NoWrite
        /\ calls[c].gs = Returned(Null)
        /\ calls[c].pc = "done"
        /\ calls[c].op = "getSessionId" => calls[c].ret = Null

\* A getSessionId call with a stored id has ended on a transport failure of
\* its validation request, the id still stored.
C4_Witness ==
    \E c \in Calls :
        /\ calls[c].op = "getSessionId" /\ calls[c].pc = "done"
        /\ calls[c].valResp = "fail" /\ calls[c].stored0 \in AllIds
        /\ storage = calls[c].stored0

\* C5: a getSessionId call that reads a persisted id which the service
\* confirms returns that same id, call after call.
C5_StableId ==
    \A c \in Calls :
        ( /\ calls[c].op = "getSessionId" /\ calls[c].pc = "done"
          /\ calls[c].valResp = "ok" ) =>
        /\ calls[c].stored0 \in ServerIds
        /\ calls[c].ret = calls[c].stored0

\* A getSessionId call has returned the stored id, which a call that
\* started meanwhile has read as well.
C5_Witness ==
    /\ storage \in AllIds
    /\ \E c, d \in Calls :
        /\ calls[c].op = "getSessionId" /\ calls[c].pc = "done"
        /\ calls[c].valResp = "ok" /\ calls[c].ret = storage
        /\ calls[d].pc = "awaitValidate" /\ calls[d].sessionId = storage

\* C6: no step of a call whose stored id the service has confirmed changes
\* localStorage, whichever of the four operations it is; when the
\* confirmation arrives the call has issued no create request and written
\* nothing, and its getSessionId gives exactly the stored id.
C6_ValidFrame ==
    [][ \A c \in Calls :
          ( /\ calls'[c] # calls[c]
            /\ calls'[c].valResp = "ok" \/ calls'[c].confirmed ) =>
              /\ calls'[c].op \in Ops
              /\ storage' = storage
              /\ calls'[c].nCreate = 0
              /\ calls'[c].wrote = NoWrite
              /\ Resolves(c) =>
                    /\ calls'[c].gs = Returned(calls[c].stored0)
                    /\ calls[c].stored0 = calls[c].sessionId
                    /\ calls'[c].op = "getSessionId" =>
                          calls'[c].ret = calls[c].stored0
      ]_vars

\* An updateContext call on a confirmed id has been accepted.
C6_Witness ==
    \E c \in Calls :
        /\ calls[c].op = "updateContext" /\ calls[c].pc = "done"
        /\ calls[c].confirmed /\ calls[c].ret = TRUE
        /\ storage = calls[c].target

\* C7: one call issues at most one validation request and at most one
\* create request.
C7_NoRetry ==
    \A c \in Calls : calls[c].nValidate <= 1 /\ calls[c].nCreate <= 1

\* A call has ended after one validation and one refused create request,
\* while the next call has issued a create request of its own.
C7_Witness ==
    \E c, d \in Calls :
        /\ c # d
        /\ calls[c].pc = "done" /\ calls[c].op = "getSessionId"
        /\ calls[c].nValidate = 1 /\ calls[c].nCreate = 1
        /\ calls[c].createResp = "notok"
        /\ calls[d].valResp = "notok" /\ calls[d].nCreate = 1
        /\ calls[d].stored0 = calls[c].stored0

\* C8: when the create request fails (transport error or non-success
\* answer), getSessionId returns null and the call writes nothing.
C8_CreateFailure ==
    \A c \in Calls : calls[c].createResp \in {"notok", "fail"} =>
        /\ calls[c].gs = Returned(Null)
        /\ calls[c].wrote = NoWrite
        /\ calls[c].pc = "done"
        /\ calls[c].op = "getSessionId" => calls[c].ret = Null

\* A fresh client's getSessionId has ended on a refused create request.
C8_Witness ==
    \E c \in Calls :
        /\ calls[c].op = "getSessionId" /\ calls[c].pc = "done"
        /\ calls[c].createResp = "notok" /\ calls[c].stored0 = Null
        /\ storage = Null

\* C9 as stated: once the call that saw its stored id rejected is over, the
\* rejected id is no longer the stored value.
C9_Original ==
    \A c \in Calls :
        (calls[c].valResp = "notok" /\ Resolved(c)) => storage # calls[c].stored0

\* C9 as amended: the step that ends a getSessionId whose stored id was
\* rejected replaces the stored value exactly when the create response was
\* a success with a parseable body (by a new id when the body carries one);
\* otherwise it leaves localStorage as it is.
C9_ReplacedOnlyOnCreate ==
    [][ \A c \in Calls :
          (Resolves(c) /\ calls'[c].valResp = "notok") =>
              IF calls'[c].createResp = "ok" /\ calls'[c].body # "unparseable"
              THEN /\ storage' = calls'[c].wrote
                   /\ calls'[c].body = "id" =>
                        storage' \in AllIds /\ storage' # calls'[c].stored0
              ELSE storage' = storage /\ calls'[c].wrote = NoWrite
      ]_vars

\* A call has seen its stored id rejected and its create request fail, and
\* the rejected id is still stored.
C9_Witness ==
    \E c \in Calls :
        /\ calls[c].valResp = "notok" /\ calls[c].createResp = "fail"
        /\ calls[c].pc = "done" /\ calls[c].stored0 \in AllIds
        /\ storage = calls[c].stored0

\* The step in which call c sends its append-interaction or update-context
\* request.
SendsUpdate(c) ==
    /\ calls[c].pc # "awaitOp" /\ calls'[c].pc = "awaitOp"
    /\ calls'[c].op \in {"logInteraction", "updateContext"}

\* C10 as stated: every append-interaction and update-context request goes
\* to the id that is stored at the moment it is sent.
C10_Original ==
    [][ \A c \in Calls : SendsUpdate(c) => calls'[c].target = storage' ]_vars

\* C10 as amended: every such request goes to the id the call's own
\* getSessionId returned: the id the call read from storage when it started
\* and the service confirmed, or the id the call has just created and
\* stored itself.  Only on the confirmed path can it differ from the value
\* stored at the moment of sending, when storage changed while the
\* validation request was in flight.
C10_TargetIsResolvedId ==
    [][ \A c \in Calls : SendsUpdate(c) =>
          /\ calls'[c].target = calls'[c].gs.value
          /\ calls'[c].target \in AllIds
          /\ IF calls'[c].confirmed
             THEN /\ calls[c].pc = "awaitValidate"
                  /\ calls'[c].target = calls[c].stored0
             ELSE /\ calls[c].pc = "awaitCreateJson"
                  /\ calls'[c].target = storage'
      ]_vars

\* A logInteraction request is in flight to a confirmed id while nothing
\* is stored any more.
C10_Witness ==
    \E c \in Calls :
        /\ calls[c].op = "logInteraction" /\ calls[c].pc = "awaitOp"
        /\ calls[c].confirmed /\ calls[c].target \in AllIds
        /\ storage = Null

\* The call is over and its create request was answered with an id.
Provisioned(c) ==
    calls[c].pc \in {"done", "taken"} /\ calls[c].body = "id"

\* C11: getSessionId has no in-flight guard: of two calls started on a fresh
\* client before anything is written, each sends its own create request
\* (and no validation), each returns the id of its own create response, the
\* two ids are distinct sessions of the service, and once both are over
\* localStorage holds one of the two ids, the one written last (ids are
\* numbered in the order in which their bodies are read and written).
C11_RaceProvisionsTwice ==
    \A c \in Calls, d \in Calls :
        (c # d /\ Provisioned(c) /\ Provisioned(d)) =>
            /\ calls[c].nCreate = 1 /\ calls[c].nValidate = 0
            /\ calls[c].ret = calls[c].bodyId
            /\ calls[c].ret \in ServerIds
            /\ calls[c].ret # calls[d].ret
            /\ (\A e \in Calls \ {c, d} : calls[e].wrote = NoWrite) =>
                    /\ storage \in {calls[c].ret, calls[d].ret}
                    /\ storage = SessionIdOf(created)
                    /\ storage \in {calls[c].wrote, calls[d].wrote}

\* Two calls that both started on the empty store are over, each with its
\* own session: two sessions exist and the store holds the second.
C11_Witness ==
    \E c \in Calls, d \in Calls :
        /\ c # d /\ Provisioned(c) /\ Provisioned(d)
        /\ calls[c].stored0 = Null /\ calls[d].stored0 = Null
        /\ calls[c].ret = SessionIdOf(1) /\ calls[d].ret = SessionIdOf(2)
        /\ created = 2 /\ storage = calls[d].ret

\* C12: when no session id can be resolved (getSessionId gives null or
\* undefined), logInteraction does not throw: it returns false, and it has
\* sent no append request.
C12_NoSessionNoAppend ==
    \A c \in Calls :
        (calls[c].op = "logInteraction" /\ Resolved(c)
            /\ ~Truthy(calls[c].gs.value)) =>
            /\ calls[c].pc = "done"
            /\ calls[c].status = "returned"
            /\ calls[c].ret = FALSE
            /\ calls[c].nOp = 0
            /\ calls[c].opResp = None

\* A logInteraction call whose create request was refused has returned.
C12_Witness ==
    \E c \in Calls :
        /\ calls[c].op = "logInteraction" /\ calls[c].pc = "done"
        /\ calls[c].createResp = "notok" /\ calls[c].gs.value = Null
        /\ calls[c].ret = FALSE /\ calls[c].nOp = 0

\* The value the append body carries for an optional argument.
SentFor(arg) == IF arg = Undefined THEN Null ELSE arg

\* C13: a logInteraction call whose getSessionId gave a session id sends
\* exactly one append request, addressed to that id; its body carries the
\* interaction type, query, results and metadata the call was given, with
\* null for each optional argument left out; the call returns true exactly
\* when the service answers with a success status.
C13_OneAppendWithArguments ==
    \A c \in Calls :
        (calls[c].op = "logInteraction" /\ Resolved(c)
            /\ Truthy(calls[c].gs.value)) =>
            /\ calls[c].nOp = 1
            /\ calls[c].target = calls[c].gs.value
            /\ calls[c].sent.interaction_type = calls[c].args.interactionType
            /\ calls[c].sent.query = SentFor(calls[c].args.query)
            /\ calls[c].sent.results = SentFor(calls[c].args.results)
            /\ calls[c].sent.metadata = SentFor(calls[c].args.metadata)
            /\ calls[c].pc = "done" =>
                    /\ calls[c].status = "returned"
                    /\ calls[c].ret = (calls[c].opResp = "ok")

\* logInteraction('view', null, results) was accepted: the body went out
\* with query and metadata null, and the call returned true.
C13_Witness ==
    \E c \in Calls :
        /\ calls[c].op = "logInteraction" /\ calls[c].pc = "done"
        /\ calls[c].args.interactionType = "view"
        /\ calls[c].args.query = Null /\ calls[c].args.results = "results"
        /\ calls[c].args.metadata = Undefined
        /\ calls[c].sent.metadata = Null /\ calls[c].sent.results = "results"
        /\ calls[c].nOp = 1 /\ calls[c].target = SessionIdOf(1)
        /\ calls[c].opResp = "ok" /\ calls[c].ret = TRUE

\* The limit of a getHistory call: its argument, 50 when left out.
LimitOf(c) ==
    IF calls[c].args.limitGiven THEN calls[c].args.limit ELSE DefaultLimit

\* C14 as claimed: whatever the service answers, getHistory(limit) returns
\* at most limit records.
C14_Original ==
    \A c \in Calls :
        (calls[c].op = "getHistory" /\ calls[c].pc = "done") =>
            Len(calls[c].ret) <= LimitOf(c)

\* C14: getHistory(limit) asks the service for limit records (50 when the
\* argument is left out) and returns the list of the response's history
\* field as it is, without truncating it: it returns at most limit records
\* whenever the response holds at most limit records.
C14_ReturnsServerList ==
    \A c \in Calls :
        (calls[c].op = "getHistory" /\ calls[c].pc = "done") =>
            /\ calls[c].nOp = 1 => calls[c].sent.limit = LimitOf(c)
            /\ calls[c].opBody = "history" => calls[c].ret = calls[c].received
            /\ Len(calls[c].received) <= LimitOf(c) =>
                    Len(calls[c].ret) <= LimitOf(c)

\* getHistory(1) has returned the two records the service answered with.
C14_Witness ==
    \E c \in Calls :
        /\ calls[c].op = "getHistory" /\ calls[c].pc = "done"
        /\ calls[c].args.limitGiven /\ calls[c].args.limit = 1
        /\ calls[c].sent.limit = 1
        /\ Len(calls[c].received) = 2 /\ Len(calls[c].ret) = 2

\* C15: getHistory never throws, and it returns the empty sequence when no
\* session id is resolved (no history request is sent then), when its
\* request fails in transport or gets a non-success response, and when the
\* success body has no history field (or does not parse).
C15_EmptyOnFailure ==
    \A c \in Calls :
        (calls[c].op = "getHistory" /\ calls[c].pc = "done") =>
            /\ calls[c].status = "returned"
            /\ ~Truthy(calls[c].gs.value) =>
                    calls[c].ret = <<>> /\ calls[c].nOp = 0
            /\ calls[c].opResp \in {"fail", "notok"} => calls[c].ret = <<>>
            /\ calls[c].opBody \in {"nohistory", "unparseable"} =>
                    calls[c].ret = <<>>

\* A getHistory call got a success response without a history field.
C15_Witness ==
    \E c \in Calls :
        /\ calls[c].op = "getHistory" /\ calls[c].pc = "done"
        /\ calls[c].nOp = 1 /\ calls[c].opResp = "ok"
        /\ calls[c].opBody = "nohistory" /\ calls[c].ret = <<>>

\* C16: an updateContext call whose getSessionId gave a session id sends
\* exactly one PUT to that session, carrying the whole map; when the service
\* accepts it the call returns true and the session's stored context is
\* that map and nothing else; when no session id is resolved the call sends
\* nothing and returns false.
C16_ReplacesWholesale ==
    \A c \in Calls :
        (calls[c].op = "updateContext" /\ Resolved(c)) =>
            IF Truthy(calls[c].gs.value)
            THEN /\ calls[c].nOp = 1
                 /\ calls[c].target = calls[c].gs.value
                 /\ calls[c].sent.context_data = calls[c].args.contextData
                 /\ calls[c].pc = "done" =>
                        /\ calls[c].ret = (calls[c].opResp = "ok")
                        /\ calls[c].ret =>
                              context[calls[c].target] = calls[c].args.contextData
            ELSE /\ calls[c].pc = "done"
                 /\ calls[c].ret = FALSE
                 /\ calls[c].nOp = 0

\* An accepted update with the map {a} has replaced a stored map {b}.
C16_Witness ==
    \E c \in Calls :
        /\ calls[c].op = "updateContext" /\ calls[c].pc = "done"
        /\ calls[c].ret = TRUE /\ calls[c].nOp = 1
        /\ calls[c].args.contextData = {"a"}
        /\ calls[c].prevContext = {"b"}
        /\ context[calls[c].target] = {"a"}

\* C17: when concurrent updateContext calls on one session are accepted,
\* the stored context is the map of the PUT the service processed last, and
\* at no time a combination of the maps; the order in which the service
\* processes the PUTs is not the order in which the calls started.
C17_LastWriteWins ==
    /\ \A s \in AllIds :
            context[s] = EmptyContext \/ \E k \in ContextKeys : context[s] = {k}
    /\ \A c \in Calls :
            (calls[c].op = "updateContext" /\ calls[c].pc = "done"
                /\ calls[c].opResp = "ok") =>
                context[calls[c].target] = calls[c].args.contextData

\* Of two updates in flight on one session the one that started second has
\* been accepted first: the PUT of the one that started first is still to
\* be processed, and its map will be the stored one.
C17_Witness ==
    \E c \in Calls, d \in Calls :
        /\ c # d
        /\ calls[d].op = "updateContext" /\ calls[d].pc = "done"
        /\ calls[d].ret = TRUE /\ ~calls[d].first
        /\ calls[d].args.contextData = {"b"}
        /\ context[calls[d].target] = {"b"}
        /\ calls[c].op = "updateContext" /\ calls[c].pc = "awaitOp"
        /\ calls[c].first /\ calls[c].target = calls[d].target
        /\ calls[c].sent.context_data = {"a"}

\* C18: clearSession removes the stored id and does nothing else: no call
\* record changes (no request is sent) and the service keeps its sessions.
\* A call that starts on the cleared store sends a create request without
\* validating anything, and the id it is given and stores is a new session
\* of the service, not an id that existed before.
C18_ClearThenFresh ==
    [][ /\ ClearSession =>
              storage' = Null /\ calls' = calls /\ created' = created
        /\ (storage # Null /\ storage' = Null) =>
              calls' = calls /\ created' = created /\ context' = context
        /\ \A c \in Calls :
              /\ (storage = Null /\ calls[c].pc = "idle"
                    /\ calls'[c].pc # "idle") =>
                    /\ calls'[c].pc = "awaitCreate"
                    /\ calls'[c].nCreate = 1 /\ calls'[c].nValidate = 0
              /\ (calls[c].pc = "awaitCreateJson" /\ calls'[c] # calls[c]
                    /\ created' # created) =>
                    /\ calls'[c].gs.value = SessionIdOf(created')
                    /\ calls'[c].gs.value \notin ServerIds
                    /\ storage' = calls'[c].gs.value
      ]_vars

\* A session existed and was cleared; a getSessionId call that started on
\* the empty store has returned the second session, now the stored one.
C18_Witness ==
    \E c \in Calls :
        /\ calls[c].op = "getSessionId" /\ calls[c].pc = "done"
        /\ calls[c].stored0 = Null
        /\ calls[c].nValidate = 0 /\ calls[c].nCreate = 1
        /\ calls[c].ret = SessionIdOf(2) /\ storage = SessionIdOf(2)
        /\ \A d \in Calls \ {c} : calls[d].pc = "idle"

\* C19: while the service cannot be reached, every call of the four
\* operations sends a single request (the validation or the create request
\* of its getSessionId, never its own request), does not retry it, ends
\* without raising, and returns its neutral value: null for getSessionId,
\* false for logInteraction and updateContext, the empty sequence for
\* getHistory; nothing is written to localStorage, whose value stays what
\* it was.
C19_UnreachableNeutral ==
    [][ /\ storage' = storage
        /\ \A c \in Calls :
              /\ calls'[c].nValidate + calls'[c].nCreate <= 1
              /\ calls'[c].nOp = 0
              /\ calls'[c].wrote = NoWrite
              /\ calls'[c].pc = "done" =>
                    /\ calls'[c].status = "returned"
                    /\ calls'[c].gs = [status |-> "returned", value |-> Null]
                    /\ CASE calls'[c].op = "getSessionId" -> calls'[c].ret = Null
                         [] calls'[c].op = "getHistory" -> calls'[c].ret = <<>>
                         [] OTHER -> calls'[c].ret = FALSE
      ]_vars

\* With a stored id and the service unreachable, an updateContext call has
\* returned false after its validation request failed; the id is still
\* stored.
C19_Witness ==
    \E c \in Calls :
        /\ calls[c].op = "updateContext" /\ calls[c].pc = "done"
        /\ calls[c].valResp = "fail" /\ calls[c].nValidate = 1
        /\ calls[c].nCreate = 0 /\ calls[c].nOp = 0
        /\ calls[c].ret = FALSE
        /\ storage = SessionIdOf(1) /\ calls[c].stored0 = storage

\* The call's result is the neutral one of its operation: nothing (null or
\* undefined) for getSessionId, the empty sequence for getHistory, false
\* for logInteraction and updateContext.
NeutralResult(c) ==
    CASE calls[c].op = "getSessionId" -> ~Truthy(calls[c].ret)
      [] calls[c].op = "getHistory" -> calls[c].ret = <<>>
      [] OTHER -> calls[c].ret = FALSE

\* C20 as claimed: whichever request of a call met a transport failure, a
\* non-success response or a malformed body, the call's result is the
\* neutral one of its operation.
C20_Original ==
    \A c \in Calls :
        (/\ calls[c].pc = "done"
         /\ \/ calls[c].valResp \in {"fail", "notok"}
            \/ calls[c].valBody = "malformed"
            \/ calls[c].createResp \in {"fail", "notok"}
            \/ calls[c].body = "unparseable"
            \/ calls[c].opResp \in {"fail", "notok"}
            \/ calls[c].opBody \in {"malformed", "unparseable"}) =>
            NeutralResult(c)

\* C20: the three failure classes have the same result for the create
\* request (getSessionId gives nothing, and the operation its neutral
\* value) and for the history request (the empty sequence); a transport
\* failure and a non-success response of the append or context request both
\* give false, and a transport failure of the validation request gives the
\* neutral result.  They differ elsewhere: a non-success validation
\* response makes the call send a create request instead of ending, and the
\* bodies of the validation, append and context responses are not read, so
\* with a success status a malformed body is a success (the stored id is
\* returned, true is returned).
C20_FailureOutcomes ==
    \A c \in Calls :
        /\ calls[c].valResp = "notok" => calls[c].nCreate = 1
        /\ calls[c].pc = "done" =>
            /\ (\/ calls[c].createResp \in {"fail", "notok"}
                \/ calls[c].body = "unparseable"
                \/ calls[c].valResp = "fail") =>
                    calls[c].gs.value = Null /\ NeutralResult(c)
            /\ (calls[c].valResp = "ok" /\ calls[c].valBody = "malformed") =>
                    calls[c].gs.value = calls[c].stored0
            /\ calls[c].op = "getHistory" =>
                    ((\/ calls[c].opResp \in {"fail", "notok"}
                      \/ calls[c].opBody = "unparseable") =>
                        calls[c].ret = <<>>)
            /\ calls[c].op \in {"logInteraction", "updateContext"} =>
                    /\ calls[c].opResp \in {"fail", "notok"} =>
                            calls[c].ret = FALSE
                    /\ calls[c].opBody = "malformed" => calls[c].ret = TRUE

\* A logInteraction call whose append request got a success status with a
\* malformed body has returned true.
C20_Witness ==
    \E c \in Calls :
        /\ calls[c].op = "logInteraction" /\ calls[c].pc = "done"
        /\ calls[c].nOp = 1 /\ calls[c].opResp = "ok"
        /\ calls[c].opBody = "malformed" /\ calls[c].ret = TRUE

\* C28: in every reachable state the stored value is absent or a session id
\* that a successful create response carried; nothing else is ever written,
\* in particular not when the create response has no session_id.
C28_StoredIsServerId == storage \in {Null} \cup ServerIds

\* The step in which call c reads the body of its create response.
ReadsCreateBody(c) == calls[c].pc = "awaitCreateJson" /\ calls'[c] # calls[c]

\* C29 as stated: a clearSession is not undone by a create request that was
\* pending when it ran.  In ClearSpec a call that read a stored id when it
\* started and finds storage empty when its create response arrives had its
\* create request pending at the clear: its step leaves storage empty.
C29_Original ==
    [][ \A c \in Calls :
          (ReadsCreateBody(c) /\ calls[c].stored0 # Null /\ storage = Null)
              => storage' = Null ]_vars

\* C29 as amended: clearSession empties storage at the moment it runs and
\* touches no call in flight; a create response with a parseable body that
\* arrives afterwards is stored all the same, so storage is empty after a
\* clear only until the next such write.
C29_ClearDoesNotCancel ==
    [][ /\ (storage # Null /\ storage' = Null) => calls' = calls
        /\ \A c \in Calls :
              (ReadsCreateBody(c) /\ calls'[c].body # "unparseable") =>
                  /\ storage' = calls'[c].wrote
                  /\ storage' # Null
      ]_vars

\* The session was cleared while a call's create request was pending: the
\* call read a stored id when it started, storage is empty, and the call is
\* about to read its create response.
C29_Witness ==
    \E c \in Calls :
        /\ calls[c].pc = "awaitCreateJson"
        /\ calls[c].stored0 \in AllIds
        /\ storage = Null

\* C22: the polling of a generation job stops at the latest after
\* maxAttempts poll attempts, whatever the poll requests return: once 360
\* attempts have been made and every callback has run to its end, the
\* interval is cleared.
C22_StopsByMaxAttempts ==
    (ui.generation.attempts >= MaxAttempts /\ ui.generation.inflight = 0)
        => ~ui.generation.interval

\* C23: logInteraction('generate', ...) is called at most once for a
\* generation job.
C23_LoggedAtMostOnce == ui.generation.logs <= 1

\* C24: after onerror has fired, recognition.start() is not called again
\* until the user toggles dictation: a step that starts with an error seen
\* and no restart since the last toggle does not end with a restart.
C24_NoRestartAfterError ==
    [][ (ui.dictation.erred /\ ~ui.dictation.restarted)
            => ~ui'.dictation.restarted ]_vars

\* The step in which onend runs.
OnEndStep ==
    /\ ui.dictation.engine \in {"listening", "ending"}
    /\ ui'.dictation.engine \in {"none", "starting"}

C26_DashboardFetches ==
    [][ LET d == ui.dashboard
            e == ui'.dashboard
        IN /\ (d.life = "initial" /\ e.life = "mounted") =>
                 /\ e.inflight = d.inflight + 1
                 /\ e.interval
           /\ e.inflight > d.inflight =>
                 /\ e.inflight = d.inflight + 1
                 /\ e.limit = DashboardLimit
                 /\ e.life = "mounted"
                 /\ d.life = "initial" \/ d.interval
           /\ e.life = "unmounted" => ~e.interval /\ e.inflight <= d.inflight
           /\ e.inflight < d.inflight => e.count = Len(e.history)
      ]_vars

\* The Dashboard has been unmounted while a fetch was pending, after a
\* fetch had shown a history that is not empty.
C26_Witness ==
    /\ ui.dashboard.life = "unmounted"
    /\ ui.dashboard.inflight > 0
    /\ ui.dashboard.count > 0

\* C27: a run of handleUploadAndAnalyze sends a search request only after
\* its upload-image request was answered with is_real true, and at most
\* one; whenever no run is under way, loading is false.
C27_SearchOnlyWhenReal ==
    /\ ui.moduleB.searches > 0 => ui.moduleB.auth = "real"
    /\ ui.moduleB.searches <= 1
    /\ ui.moduleB.pc = "awaitSearch" => ui.moduleB.searches = 1
    /\ ui.moduleB.pc = "idle" => ~ui.moduleB.loading
    /\ ui.moduleB.pc # "idle" => ui.moduleB.loading

\* A run has ended on an image that is not real: no search request was
\* sent, the verdict is shown and loading is false.
C27_Witness ==
    /\ ui.moduleB.pc = "idle"
    /\ ui.moduleB.auth = "fake"
    /\ ui.moduleB.authResult = "fake"
    /\ ui.moduleB.searches = 0
    /\ ~ui.moduleB.loading

\* What the three pages show of a user's action: the results and the
\* loading flags.
Shown ==
    << ui.moduleC.result, ui.moduleC.loading,
       ui.moduleD.suspects, ui.moduleD.stats, ui.moduleD.loading,
       ui.generation.sketch, ui.generation.matches, ui.generation.loading >>

\* A step in which a logInteraction call of a page settles.
LogSettlesStep ==
    \/ ui'.moduleC.logsPending < ui.moduleC.logsPending
    \/ ui'.moduleD.logsPending < ui.moduleD.logsPending
    \/ ui'.generation.logsPending < ui.generation.logsPending

\* C21: what handleCheck, handleDelete and the generation flow show does
\* not depend on session logging: a logInteraction call that settles, with
\* true or with false, changes nothing of it, and at every moment it is
\* determined by the answers to the primary requests alone, whether the
\* log calls have settled or not.
C21_LoggingDoesNotShow ==
    [][ /\ LogSettlesStep => Shown' = Shown
        /\ LET c == ui'.moduleC
               d == ui'.moduleD
               g == ui'.generation
           IN /\ c.loading = (c.pc = "awaitDetect")
              /\ c.result = IF c.primary = "data" THEN "data" ELSE Null
              /\ d.loading = d.suspectsPending
              /\ d.suspects = IF d.reload = "ok" THEN "reloaded" ELSE "listed"
              /\ d.stats = IF d.restat = "ok" THEN "reloaded" ELSE "shown"
              /\ g.sketch = IF "completed" \in g.seen THEN "sketch" ELSE Null
              /\ g.matches = IF "completed" \in g.seen THEN <<"match">> ELSE <<>>
              /\ g.loading = \/ g.pc = "starting"
                             \/ g.pc = "polling" /\ g.seen = {}
      ]_vars

\* handleCheck has shown its verdict and is over, and its log call has
\* returned false.
C21_Witness ==
    /\ ui.moduleC.result = "data"
    /\ ui.moduleC.pc = "idle" /\ ~ui.moduleC.loading
    /\ ui.moduleC.logs = 1 /\ ui.moduleC.logsPending = 0
    /\ ui.moduleC.logResult = FALSE

\* C30: a 'detect', 'delete' or 'generate' interaction is logged only after
\* its primary request has succeeded; while that request is pending, and
\* when it has failed, no logInteraction call has been made.
C30_LoggedOnlyAfterSuccess ==
    /\ ui.moduleC.logs > 0 => ui.moduleC.primary = "data"
    /\ ui.moduleC.pc = "awaitDetect" => ui.moduleC.logs = 0
    /\ ui.moduleD.logs > 0 => ui.moduleD.primary = "ok"
    /\ ui.moduleD.pc = "awaitDelete" => ui.moduleD.logs = 0
    /\ ui.generation.logs > 0 => "completed" \in ui.generation.seen
    /\ ui.generation.pc \in {"starting", "startFailed"} => ui.generation.logs = 0

\* A detect request has been rejected and handleCheck is over: nothing
\* was logged.
C30_Witness ==
    /\ ui.moduleC.primary = "rejected"
    /\ ui.moduleC.pc = "idle"
    /\ ui.moduleC.logs = 0

====
